---- MODULE Spec2Model ----
(***************************************************************************)
(* Model of the session cipher core (rust/protocol/src/session_cipher.rs). *)
(*                                                                         *)
(* Cryptography is symbolic: a key is a term, a ciphertext names the key   *)
(* and iv it was produced under, a MAC names the key and the data it was   *)
(* computed over.  Option<T> is a sequence of length 0 or 1.  Result<T> is *)
(* a record with an ok flag and an error record.                           *)
(*                                                                         *)
(* Every public operation is a task that advances from one store call      *)
(* (suspension point) to the next; the synchronous work between two store  *)
(* calls is part of the step that follows the earlier call.                *)
(***************************************************************************)
EXTENDS Integers, Sequences, FiniteSets, TLC

VARIABLES
    sessions,    \* SessionStore of each party: Option<SessionRecord> for the peer's address
    identities,  \* IdentityKeyStore of each party: Option<identity key> saved for the peer
    pre_keys,    \* PreKeyStore of each party: set of one-time pre key ids
    net,         \* envelopes returned by successful encrypts (deliverable any number of times)
    consumed,    \* history: the messages each party has decrypted and persisted
    task         \* the operation in flight (or last finished) in each task slot

vars == <<sessions, identities, pre_keys, net, consumed, task>>

----------------------------------------------------------------------------
(* Bounds of the model *)

\* consts::MAX_FORWARD_JUMPS is 2000 in the program; the model scales it down.
MAX_FORWARD_JUMPS == 1

\* Sessions the initiator sets up (each one archives the previous one).
MaxSessions == 2

\* Envelopes the two parties send in all: enough for a jump beyond MAX_FORWARD_JUMPS.
MaxCounter == MAX_FORWARD_JUMPS + 2

Parties == {"alice", "bob"}

Peer(p) == IF p = "alice" THEN "bob" ELSE "alice"

\* The plaintexts of the scenarios: the n-th envelope sent carries its own
\* plaintext, "hello" first and then "m1", "m2", ...
Plaintexts(n) == {<<"hello", "m1", "m2", "m3", "m4", "m5">>[n + 1]}

----------------------------------------------------------------------------
(* Option and Result *)

None == <<>>

Some(x) == <<x>>

IsSome(o) == Len(o) = 1

NoError == [kind |-> "none", reason |-> "", chain_index |-> 0, counter |-> 0]

Error(kind, reason) == [kind |-> kind, reason |-> reason, chain_index |-> 0, counter |-> 0]

DuplicatedMessage(chain_index, counter) ==
    [kind |-> "DuplicatedMessage", reason |-> "", chain_index |-> chain_index, counter |-> counter]

----------------------------------------------------------------------------
(* Keys and the primitives (curve, ratchet, crypto, protocol) *)

IdentityKey(p) == IF p = "alice" THEN "alice_identity" ELSE "bob_identity"

\* The responder's signed pre key; it is also his first ratchet key.
SignedPreKey == "bob_signed_pre_key"

\* The base key and the first ratchet key of the initiator's session s.
BaseKey(s) == <<"alice_base_1", "alice_base_2", "alice_base_3">>[s]

RatchetKey(s) == <<"alice_ratchet_1", "alice_ratchet_2", "alice_ratchet_3">>[s]

\* Diffie-Hellman agreement: the same secret from either side's key pair.
calculate_agreement(their_public, our_private) == {their_public, our_private}

\* RootKey::create_chain: KDF_RK(root_key, DH(their, our)) = (new root key, chain key)
create_chain(root_key, their_ratchet_key, our_ratchet_key) ==
    LET new_root == [root_key EXCEPT !.mixed =
                        Append(@, calculate_agreement(their_ratchet_key, our_ratchet_key))]
    IN  [root_key |-> new_root,
         chain_key |-> [key |-> [seed |-> new_root, steps |-> 0], index |-> 0]]

\* ChainKey::next_chain_key
next_chain_key(ck) ==
    [key |-> [seed |-> ck.key.seed, steps |-> ck.key.steps + 1], index |-> ck.index + 1]

\* ChainKey::message_keys
message_keys(ck) == [secret |-> ck.key, counter |-> ck.index]

\* MessageKeys::cipher_key, mac_key, iv: three keys derived from the one secret
cipher_key(keys) == [use |-> "cipher", from |-> keys.secret]

mac_key(keys) == [use |-> "mac", from |-> keys.secret]

iv(keys) == [use |-> "iv", from |-> keys.secret]

aes_256_cbc_encrypt(ptext, key, nonce) == [ptext |-> ptext, key |-> key, iv |-> nonce]

\* Decryption under another key or iv does not give the plaintext back.
aes_256_cbc_decrypt(ctext, key, nonce) ==
    IF ctext.key = key /\ ctext.iv = nonce
    THEN [ok |-> TRUE, ptext |-> ctext.ptext]
    ELSE [ok |-> FALSE, ptext |-> ""]

compute_mac(key, sender_identity, receiver_identity, data) ==
    [key |-> key, sender |-> sender_identity, receiver |-> receiver_identity, data |-> data]

MacData(m) ==
    [message_version |-> m.message_version, sender_ratchet_key |-> m.sender_ratchet_key,
     counter |-> m.counter, previous_counter |-> m.previous_counter, body |-> m.body]

\* SignalMessage::new
NewSignalMessage(version, key, ratchet_key, counter, previous_counter, ctext, sender, receiver) ==
    LET fields == [message_version |-> version, sender_ratchet_key |-> ratchet_key,
                   counter |-> counter, previous_counter |-> previous_counter, body |-> ctext]
    IN  [message_version |-> version, sender_ratchet_key |-> ratchet_key,
         counter |-> counter, previous_counter |-> previous_counter, body |-> ctext,
         mac |-> compute_mac(key, sender, receiver, fields)]

\* SignalMessage::verify_mac
verify_mac(m, sender_identity, receiver_identity, key) ==
    m.mac = compute_mac(key, sender_identity, receiver_identity, MacData(m))

----------------------------------------------------------------------------
(* SessionState and SessionRecord (state.rs) *)

\* Receiver chains kept per state; older ones are evicted.
MAX_RECEIVER_CHAINS == 5

\* Index of the receiver chain of a peer ratchet key, 0 when there is none.
ReceiverChainIndex(state, their_ephemeral) ==
    LET hits == {i \in DOMAIN state.receiver_chains :
                    state.receiver_chains[i].sender_ratchet_key = their_ephemeral}
    IN  IF hits = {} THEN 0 ELSE CHOOSE i \in hits : \A j \in hits : i <= j

get_receiver_chain_key(state, their_ephemeral) ==
    LET i == ReceiverChainIndex(state, their_ephemeral)
    IN  IF i = 0 THEN None ELSE Some(state.receiver_chains[i].chain_key)

add_receiver_chain(state, their_ephemeral, chain_key) ==
    LET chain  == [sender_ratchet_key |-> their_ephemeral, chain_key |-> chain_key,
                   message_keys |-> <<>>]
        added  == Append(state.receiver_chains, chain)
        kept   == IF Len(added) > MAX_RECEIVER_CHAINS THEN Tail(added) ELSE added
    IN  [state EXCEPT !.receiver_chains = kept]

set_receiver_chain_key(state, their_ephemeral, chain_key) ==
    LET i == ReceiverChainIndex(state, their_ephemeral)
    IN  IF i = 0 THEN state
        ELSE [state EXCEPT !.receiver_chains[i].chain_key = chain_key]

set_message_keys(state, their_ephemeral, keys) ==
    LET i == ReceiverChainIndex(state, their_ephemeral)
    IN  IF i = 0 THEN state
        ELSE [state EXCEPT !.receiver_chains[i].message_keys = <<keys>> \o @]

RemoveAt(seq, k) == [j \in 1..(Len(seq) - 1) |-> IF j < k THEN seq[j] ELSE seq[j + 1]]

\* Looks the skipped key of a counter up and takes it out of the cache.
get_message_keys(state, their_ephemeral, counter) ==
    LET i    == ReceiverChainIndex(state, their_ephemeral)
        keys == IF i = 0 THEN <<>> ELSE state.receiver_chains[i].message_keys
        hits == {k \in DOMAIN keys : keys[k].counter = counter}
        k    == CHOOSE h \in hits : \A j \in hits : h <= j
    IN  IF hits = {}
        THEN [keys |-> None, state |-> state]
        ELSE [keys |-> Some(keys[k]),
              state |-> [state EXCEPT !.receiver_chains[i].message_keys = RemoveAt(keys, k)]]

set_sender_chain_key(state, chain_key) ==
    [state EXCEPT !.sender_chain = <<[@[1] EXCEPT !.chain_key = chain_key]>>]

clear_unacknowledged_pre_key_message(state) ==
    [state EXCEPT !.pending_pre_key = None]

\* SessionRecord::new_fresh
new_fresh == [current_session |-> None, previous_sessions |-> <<>>]

\* SessionRecord::set_session_state
set_session_state(record, state) == [record EXCEPT !.current_session = Some(state)]

\* SessionRecord::promote_state: the current state becomes the head of the archive
promote_state(record, state) ==
    [current_session   |-> Some(state),
     previous_sessions |-> record.current_session \o record.previous_sessions]

\* SessionRecord::promote_old_session
promote_old_session(record, idx, updated) ==
    promote_state([record EXCEPT !.previous_sessions = RemoveAt(@, idx)], updated)

----------------------------------------------------------------------------
(* The decryptors (session_cipher.rs) *)

\* The one element of a singleton set: Only({e(x) : x \in {v}}) is e(v), with v
\* computed once.
Only(S) == CHOOSE x \in S : TRUE

\* Mutant: the ratchet step is taken whether or not the peer ratchet key is new.
get_or_create_chain_keyAlways(state, their_ephemeral) ==
    Only({ [state |-> add_receiver_chain(
                          [state EXCEPT !.root_key = receiver_chain.root_key],
                          their_ephemeral, receiver_chain.chain_key),
            chain_key |-> receiver_chain.chain_key] :
           receiver_chain \in
               {create_chain(state.root_key, their_ephemeral,
                             state.sender_chain[1].sender_ratchet_key)} })

\* Perform the receiver half of the DH ratchet step if the peer ratchet key is new.
get_or_create_chain_key(state, their_ephemeral) ==
    Only({ IF IsSome(existing)
           THEN [state |-> state, chain_key |-> existing[1]]
           ELSE Only({ [state |-> add_receiver_chain(
                                      [state EXCEPT !.root_key = receiver_chain.root_key],
                                      their_ephemeral, receiver_chain.chain_key),
                        chain_key |-> receiver_chain.chain_key] :
                       receiver_chain \in
                           {create_chain(state.root_key, their_ephemeral,
                                         state.sender_chain[1].sender_ratchet_key)} }) :
           existing \in {get_receiver_chain_key(state, their_ephemeral)} })

\* Mutant: the loop steps the chain key without storing the skipped keys.
RECURSIVE RatchetToDropsKeys(_, _, _, _)
RatchetToDropsKeys(state, their_ephemeral, chain_key, counter) ==
    IF chain_key.index < counter
    THEN RatchetToDropsKeys(state, their_ephemeral, next_chain_key(chain_key), counter)
    ELSE [state |-> state, chain_key |-> chain_key]

\* The loop of get_or_create_message_key: store the keys of the skipped counters.
RECURSIVE RatchetTo(_, _, _, _)
RatchetTo(state, their_ephemeral, chain_key, counter) ==
    IF chain_key.index < counter
    THEN RatchetTo(set_message_keys(state, their_ephemeral, message_keys(chain_key)),
                   their_ephemeral, next_chain_key(chain_key), counter)
    ELSE [state |-> state, chain_key |-> chain_key]

NoMessageKeys ==
    message_keys([key |-> [seed |-> [secret |-> <<>>, mixed |-> <<>>], steps |-> 0],
                  index |-> 0])

\* Mutant: the receiver chain key is stored without the step past the counter.
get_or_create_message_keyKeepsIndex(state, their_ephemeral, chain_key, counter) ==
    IF chain_key.index > counter
    THEN Only({ IF IsSome(found.keys)
                THEN [ok |-> TRUE, err |-> NoError, state |-> found.state,
                      keys |-> found.keys[1]]
                ELSE [ok |-> FALSE, err |-> DuplicatedMessage(chain_key.index, counter),
                      state |-> found.state, keys |-> NoMessageKeys] :
                found \in {get_message_keys(state, their_ephemeral, counter)} })
    ELSE IF counter - chain_key.index > MAX_FORWARD_JUMPS
    THEN [ok |-> FALSE,
          err |-> Error("InvalidMessage", "message from too far into the future"),
          state |-> state, keys |-> NoMessageKeys]
    ELSE Only({ [ok |-> TRUE, err |-> NoError,
                 state |-> set_receiver_chain_key(r.state, their_ephemeral,
                                                  r.chain_key),
                 keys |-> message_keys(r.chain_key)] :
                r \in {RatchetTo(state, their_ephemeral, chain_key, counter)} })

\* Mutant: the forward jump bound is off by one.
get_or_create_message_keyOffByOne(state, their_ephemeral, chain_key, counter) ==
    IF chain_key.index > counter
    THEN Only({ IF IsSome(found.keys)
                THEN [ok |-> TRUE, err |-> NoError, state |-> found.state,
                      keys |-> found.keys[1]]
                ELSE [ok |-> FALSE, err |-> DuplicatedMessage(chain_key.index, counter),
                      state |-> found.state, keys |-> NoMessageKeys] :
                found \in {get_message_keys(state, their_ephemeral, counter)} })
    ELSE IF counter - chain_key.index >= MAX_FORWARD_JUMPS
    THEN [ok |-> FALSE,
          err |-> Error("InvalidMessage", "message from too far into the future"),
          state |-> state, keys |-> NoMessageKeys]
    ELSE Only({ [ok |-> TRUE, err |-> NoError,
                 state |-> set_receiver_chain_key(r.state, their_ephemeral,
                                                  next_chain_key(r.chain_key)),
                 keys |-> message_keys(r.chain_key)] :
                r \in {RatchetTo(state, their_ephemeral, chain_key, counter)} })

\* Mutant: the forward jump is tested after the loop has stored the skipped keys.
get_or_create_message_keyChecksLate(state, their_ephemeral, chain_key, counter) ==
    IF chain_key.index > counter
    THEN Only({ IF IsSome(found.keys)
                THEN [ok |-> TRUE, err |-> NoError, state |-> found.state,
                      keys |-> found.keys[1]]
                ELSE [ok |-> FALSE, err |-> DuplicatedMessage(chain_key.index, counter),
                      state |-> found.state, keys |-> NoMessageKeys] :
                found \in {get_message_keys(state, their_ephemeral, counter)} })
    ELSE Only({ IF counter - chain_key.index > MAX_FORWARD_JUMPS
                THEN [ok |-> FALSE,
                      err |-> Error("InvalidMessage", "message from too far into the future"),
                      state |-> r.state, keys |-> NoMessageKeys]
                ELSE [ok |-> TRUE, err |-> NoError,
                      state |-> set_receiver_chain_key(r.state, their_ephemeral,
                                                       next_chain_key(r.chain_key)),
                      keys |-> message_keys(r.chain_key)] :
                r \in {RatchetTo(state, their_ephemeral, chain_key, counter)} })

\* Mutant: a cached key is handed out without being taken out of the cache.
get_or_create_message_keyPeeks(state, their_ephemeral, chain_key, counter) ==
    IF chain_key.index > counter
    THEN Only({ IF IsSome(found.keys)
                THEN [ok |-> TRUE, err |-> NoError, state |-> state,
                      keys |-> found.keys[1]]
                ELSE [ok |-> FALSE, err |-> DuplicatedMessage(chain_key.index, counter),
                      state |-> found.state, keys |-> NoMessageKeys] :
                found \in {get_message_keys(state, their_ephemeral, counter)} })
    ELSE IF counter - chain_key.index > MAX_FORWARD_JUMPS
    THEN [ok |-> FALSE,
          err |-> Error("InvalidMessage", "message from too far into the future"),
          state |-> state, keys |-> NoMessageKeys]
    ELSE Only({ [ok |-> TRUE, err |-> NoError,
                 state |-> set_receiver_chain_key(r.state, their_ephemeral,
                                                  next_chain_key(r.chain_key)),
                 keys |-> message_keys(r.chain_key)] :
                r \in {RatchetTo(state, their_ephemeral, chain_key, counter)} })

\* The message keys of a counter: cached, derived, or refused.
get_or_create_message_key(state, their_ephemeral, chain_key, counter) ==
    IF chain_key.index > counter
    THEN Only({ IF IsSome(found.keys)
                THEN [ok |-> TRUE, err |-> NoError, state |-> found.state,
                      keys |-> found.keys[1]]
                ELSE [ok |-> FALSE, err |-> DuplicatedMessage(chain_key.index, counter),
                      state |-> found.state, keys |-> NoMessageKeys] :
                found \in {get_message_keys(state, their_ephemeral, counter)} })
    ELSE IF counter - chain_key.index > MAX_FORWARD_JUMPS
    THEN [ok |-> FALSE,
          err |-> Error("InvalidMessage", "message from too far into the future"),
          state |-> state, keys |-> NoMessageKeys]
    ELSE Only({ [ok |-> TRUE, err |-> NoError,
                 state |-> set_receiver_chain_key(r.state, their_ephemeral,
                                                  next_chain_key(r.chain_key)),
                 keys |-> message_keys(r.chain_key)] :
                r \in {RatchetTo(state, their_ephemeral, chain_key, counter)} })

\* Mutant: decrypt_message_with_state goes on to AES whatever verify_mac said.
VerifyAndDecryptNoMac(got, ciphertext) ==
    IF ~got.ok
    THEN [ok |-> FALSE, err |-> got.err, state |-> got.state, ptext |-> ""]
    ELSE IF ~IsSome(got.state.remote_identity_key)
    THEN [ok |-> FALSE, err |-> Error("InvalidSessionStructure", ""),
          state |-> got.state, ptext |-> ""]
    ELSE Only({ IF ~plain.ok
                THEN [ok |-> FALSE, err |-> Error("InvalidCiphertext", "decryption"),
                      state |-> got.state, ptext |-> ""]
                ELSE [ok |-> TRUE, err |-> NoError,
                      state |-> clear_unacknowledged_pre_key_message(got.state),
                      ptext |-> plain.ptext] :
                plain \in {aes_256_cbc_decrypt(ciphertext.body, cipher_key(got.keys),
                                               iv(got.keys))} })

\* decrypt_message_with_state once the message keys are there: MAC, then AES.
VerifyAndDecrypt(got, ciphertext) ==
    IF ~got.ok
    THEN [ok |-> FALSE, err |-> got.err, state |-> got.state, ptext |-> ""]
    ELSE IF ~IsSome(got.state.remote_identity_key)
    THEN [ok |-> FALSE, err |-> Error("InvalidSessionStructure", ""),
          state |-> got.state, ptext |-> ""]
    ELSE IF ~verify_mac(ciphertext, got.state.remote_identity_key[1],
                        got.state.local_identity_key, mac_key(got.keys))
    THEN [ok |-> FALSE, err |-> Error("InvalidCiphertext", ""),
          state |-> got.state, ptext |-> ""]
    ELSE Only({ IF ~plain.ok
                THEN [ok |-> FALSE, err |-> Error("InvalidCiphertext", "decryption"),
                      state |-> got.state, ptext |-> ""]
                ELSE [ok |-> TRUE, err |-> NoError,
                      state |-> clear_unacknowledged_pre_key_message(got.state),
                      ptext |-> plain.ptext] :
                plain \in {aes_256_cbc_decrypt(ciphertext.body, cipher_key(got.keys),
                                               iv(got.keys))} })

\* The per-state decryptor; state is the caller's clone, returned as mutated.
decrypt_message_with_state(state, ciphertext) ==
    IF ~IsSome(state.sender_chain)
    THEN [ok |-> FALSE, err |-> Error("InvalidMessage", "No session available to decrypt"),
          state |-> state, ptext |-> ""]
    ELSE IF ciphertext.message_version # state.session_version
    THEN [ok |-> FALSE, err |-> Error("UnrecognizedMessageVersion", ""),
          state |-> state, ptext |-> ""]
    ELSE Only({ Only({ VerifyAndDecrypt(got, ciphertext) :
                       got \in {get_or_create_message_key(chain.state,
                                    ciphertext.sender_ratchet_key, chain.chain_key,
                                    ciphertext.counter)} }) :
                chain \in {get_or_create_chain_key(state, ciphertext.sender_ratchet_key)} })

\* Mutant: the archived state that decrypts is made current without the exchange
\* with the formerly current state.
RECURSIVE TryPreviousNoExchange(_, _, _, _)
TryPreviousNoExchange(record, ciphertext, idx, tried) ==
    IF idx > Len(record.previous_sessions)
    THEN [ok |-> FALSE, err |-> Error("InvalidMessage", "message decryption failed"),
          record |-> record, ptext |-> "", tried |-> tried]
    ELSE Only({ IF result.ok
                THEN [ok |-> TRUE, err |-> NoError,
                      record |-> set_session_state(record, result.state),
                      ptext |-> result.ptext, tried |-> tried + 1]
                ELSE IF result.err.kind = "DuplicatedMessage"
                THEN [ok |-> FALSE, err |-> result.err, record |-> record, ptext |-> "",
                      tried |-> tried + 1]
                ELSE TryPreviousNoExchange(record, ciphertext, idx + 1, tried + 1) :
                result \in {decrypt_message_with_state(record.previous_sessions[idx],
                                                       ciphertext)} })

\* The loop over the archived states, from position idx on.  tried counts the
\* candidate states the per-state decryptor has been run against.
RECURSIVE TryPrevious(_, _, _, _)
TryPrevious(record, ciphertext, idx, tried) ==
    IF idx > Len(record.previous_sessions)
    THEN [ok |-> FALSE, err |-> Error("InvalidMessage", "message decryption failed"),
          record |-> record, ptext |-> "", tried |-> tried]
    ELSE Only({ IF result.ok
                THEN [ok |-> TRUE, err |-> NoError,
                      record |-> promote_old_session(record, idx, result.state),
                      ptext |-> result.ptext, tried |-> tried + 1]
                ELSE IF result.err.kind = "DuplicatedMessage"
                THEN [ok |-> FALSE, err |-> result.err, record |-> record, ptext |-> "",
                      tried |-> tried + 1]
                ELSE TryPrevious(record, ciphertext, idx + 1, tried + 1) :
                result \in {decrypt_message_with_state(record.previous_sessions[idx],
                                                       ciphertext)} })

\* Mutant: a duplicate reported by the current state does not end the search.
decrypt_message_with_recordGoesOn(record, ciphertext) ==
    IF IsSome(record.current_session)
    THEN Only({ IF result.ok
                THEN [ok |-> TRUE, err |-> NoError,
                      record |-> set_session_state(record, result.state),
                      ptext |-> result.ptext, tried |-> 1]
                ELSE TryPrevious(record, ciphertext, 1, 1) :
                result \in {decrypt_message_with_state(record.current_session[1],
                                                       ciphertext)} })
    ELSE TryPrevious(record, ciphertext, 1, 0)

\* Mutant: the current state is decrypted against in place, not on a clone.
decrypt_message_with_recordInPlace(record, ciphertext) ==
    IF IsSome(record.current_session)
    THEN Only({ IF result.ok
                THEN [ok |-> TRUE, err |-> NoError,
                      record |-> set_session_state(record, result.state),
                      ptext |-> result.ptext, tried |-> 1]
                ELSE IF result.err.kind = "DuplicatedMessage"
                THEN [ok |-> FALSE, err |-> result.err, record |-> record, ptext |-> "",
                      tried |-> 1]
                ELSE TryPrevious(set_session_state(record, result.state), ciphertext, 1, 1) :
                result \in {decrypt_message_with_state(record.current_session[1],
                                                       ciphertext)} })
    ELSE TryPrevious(record, ciphertext, 1, 0)

\* The record-level decryptor.
decrypt_message_with_record(record, ciphertext) ==
    IF IsSome(record.current_session)
    THEN Only({ IF result.ok
                THEN [ok |-> TRUE, err |-> NoError,
                      record |-> set_session_state(record, result.state),
                      ptext |-> result.ptext, tried |-> 1]
                ELSE IF result.err.kind = "DuplicatedMessage"
                THEN [ok |-> FALSE, err |-> result.err, record |-> record, ptext |-> "",
                      tried |-> 1]
                ELSE TryPrevious(record, ciphertext, 1, 1) :
                result \in {decrypt_message_with_state(record.current_session[1],
                                                       ciphertext)} })
    ELSE TryPrevious(record, ciphertext, 1, 0)

----------------------------------------------------------------------------
(* Session set-up (session.rs, ratchet.rs): the external key agreement *)

\* The shared secret of the key agreement, the same on both sides.
AgreedSecret(identity_a, base_key, pre_key_id) ==
    [secret |-> <<identity_a, base_key, IdentityKey("bob"), SignedPreKey>>,
     pre_key_id |-> pre_key_id]

InitialRootKey(identity_a, base_key, pre_key_id) ==
    [secret |-> AgreedSecret(identity_a, base_key, pre_key_id), mixed |-> <<>>]

InitialChainKey(root_key) == [key |-> [seed |-> root_key, steps |-> 0], index |-> 0]

\* The one-time pre key the initiator's session s was built from, if any.
BundlePreKeyId(s) == IF s = 1 THEN Some(42) ELSE None

\* The initiator's state for her session s.
initialize_alice_session(s) ==
    LET root_key == InitialRootKey(IdentityKey("alice"), BaseKey(s), BundlePreKeyId(s))
        sending  == create_chain(root_key, SignedPreKey, RatchetKey(s))
    IN  [session_version        |-> 3,
         local_identity_key     |-> IdentityKey("alice"),
         remote_identity_key    |-> Some(IdentityKey("bob")),
         root_key               |-> sending.root_key,
         sender_chain           |-> Some([sender_ratchet_key |-> RatchetKey(s),
                                          chain_key |-> sending.chain_key]),
         receiver_chains        |-> <<[sender_ratchet_key |-> SignedPreKey,
                                       chain_key |-> InitialChainKey(root_key),
                                       message_keys |-> <<>>]>>,
         previous_counter       |-> 0,
         alice_base_key         |-> BaseKey(s),
         local_registration_id  |-> 1,
         remote_registration_id |-> 2,
         pending_pre_key        |-> Some([pre_key_id |-> BundlePreKeyId(s),
                                          signed_pre_key_id |-> 0,
                                          base_key |-> BaseKey(s)])]

\* The responder's state for the session a PreKeySignalMessage header announces.
initialize_bob_session(header) ==
    LET root_key == InitialRootKey(header.identity_key, header.base_key, header.pre_key_id)
    IN  [session_version        |-> header.message_version,
         local_identity_key     |-> IdentityKey("bob"),
         remote_identity_key    |-> Some(header.identity_key),
         root_key               |-> root_key,
         sender_chain           |-> Some([sender_ratchet_key |-> SignedPreKey,
                                          chain_key |-> InitialChainKey(root_key)]),
         receiver_chains        |-> <<>>,
         previous_counter       |-> 0,
         alice_base_key         |-> header.base_key,
         local_registration_id  |-> 2,
         remote_registration_id |-> header.registration_id,
         pending_pre_key        |-> None]

\* SessionRecord::has_session_state
has_session_state(record, version, base_key) ==
    \E st \in {record.current_session[i] : i \in DOMAIN record.current_session}
              \cup {record.previous_sessions[i] : i \in DOMAIN record.previous_sessions} :
        st.session_version = version /\ st.alice_base_key = base_key

\* session::process_prekey, given the answer of the identity store and the pre
\* keys the store holds.
process_prekey(header, record, trusted, stored_pre_keys) ==
    IF ~trusted
    THEN [ok |-> FALSE, err |-> Error("UntrustedIdentity", ""), record |-> record,
          pre_key_id |-> None, saved |-> FALSE]
    ELSE IF has_session_state(record, header.message_version, header.base_key)
    THEN [ok |-> TRUE, err |-> NoError, record |-> record, pre_key_id |-> None,
          saved |-> FALSE]
    ELSE IF \E i \in DOMAIN header.pre_key_id : header.pre_key_id[i] \notin stored_pre_keys
    THEN [ok |-> FALSE, err |-> Error("InvalidPreKeyId", ""), record |-> record,
          pre_key_id |-> None, saved |-> FALSE]
    ELSE [ok |-> TRUE, err |-> NoError,
          record |-> promote_state(record, initialize_bob_session(header)),
          pre_key_id |-> header.pre_key_id, saved |-> TRUE]

----------------------------------------------------------------------------
(* Tasks: one public operation each, advancing from store call to store call *)

Tasks == {1, 2}

\* Under the caller's per-address mutex the operations run one after the other,
\* and one task stands for them all.
Serial == {1}

\* op, who and the inputs (ptext_in, input) say what was called; pc is the store
\* call the task is suspended before; record is the session record in memory;
\* ok, err, out and ptext are what the call returned; calls lists the store calls,
\* the call of process_prekey and the run of the record-level decryptor, in the
\* order they happened.  The rest is history kept for the properties: loaded and
\* loaded_pre_keys are what the stores held when the task started, before is the
\* record the record-level decryptor was given and tried the number of states it
\* ran against, replay says that the input had been consumed before, jump is its
\* counter minus the counter expected, again says how the task before this one
\* ended if it was the same delivery ("no" if it was not).
NoLast == [op |-> "idle", who |-> "alice", input |-> None, outcome |-> "no"]

IdleTask ==
    [last |-> NoLast, op |-> "idle", pc |-> "idle", value |-> 0, who |-> "alice", input |-> None, ptext_in |-> "",
     record |-> None, calls |-> <<>>, ok |-> FALSE, err |-> NoError, out |-> None,
     ptext |-> "", pre_key_id |-> None, loaded |-> None, loaded_pre_keys |-> {},
     before |-> None, tried |-> 0, replay |-> FALSE, jump |-> 0, again |-> "no"]

\* A task starts when no operation is in flight (the caller's per-address mutex).
CanStart(t) == \A u \in Tasks : task[u].pc = "idle"

Begin(op, p) ==
    [IdleTask EXCEPT !.op = op, !.who = p, !.loaded = sessions[p],
                     !.loaded_pre_keys = pre_keys[p]]

\* An operation that fails returns the error and nothing else.
Fail(tk, err) ==
    [tk EXCEPT !.pc = "done", !.ok = FALSE, !.err = err, !.out = None, !.ptext = ""]

Called(tk, name) == [tk EXCEPT !.calls = Append(@, name)]

StorageError == Error("StorageError", "")

RECURSIVE SumIndex(_)
SumIndex(states) ==
    IF states = <<>> THEN 0
    ELSE (IF IsSome(Head(states).sender_chain)
          THEN Head(states).sender_chain[1].chain_key.index ELSE 0) + SumIndex(Tail(states))

\* The number of envelopes a party has sent, over all the states of its record.
TotalSent(stored) ==
    IF IsSome(stored)
    THEN SumIndex(stored[1].current_session \o stored[1].previous_sessions)
    ELSE 0

\* The number of envelopes the two parties have sent.
Sent == TotalSent(sessions["alice"]) + TotalSent(sessions["bob"])

\* Mutant: message_encrypt takes the message keys of the next chain key while the
\* envelope carries the counter of the current one.
encrypt_with_recordNextKeys(record, ptext, to) ==
    IF ~IsSome(record.current_session)
    THEN [ok |-> FALSE, err |-> Error("InvalidState", "No session"), record |-> record,
          message |-> None]
    ELSE LET session_state == record.current_session[1]
         IN  IF ~IsSome(session_state.sender_chain)
             THEN [ok |-> FALSE, err |-> Error("InvalidState", "No sender chain"),
                   record |-> record, message |-> None]
             ELSE IF ~IsSome(session_state.remote_identity_key)
             THEN [ok |-> FALSE, err |-> Error("InvalidSessionStructure", ""),
                   record |-> record, message |-> None]
             ELSE
             LET chain_key    == session_state.sender_chain[1].chain_key
                 keys         == message_keys(next_chain_key(chain_key))
                 ctext        == aes_256_cbc_encrypt(ptext, cipher_key(keys), iv(keys))
                 message      == NewSignalMessage(session_state.session_version,
                                     mac_key(keys),
                                     session_state.sender_chain[1].sender_ratchet_key,
                                     chain_key.index, session_state.previous_counter, ctext,
                                     session_state.local_identity_key,
                                     session_state.remote_identity_key[1])
                 items        == session_state.pending_pre_key
                 envelope     ==
                     IF IsSome(items)
                     THEN [to |-> to, kind |-> "PreKeySignalMessage",
                           header |-> Some([message_version |-> session_state.session_version,
                                            registration_id |-> session_state.local_registration_id,
                                            pre_key_id |-> items[1].pre_key_id,
                                            signed_pre_key_id |-> items[1].signed_pre_key_id,
                                            base_key |-> items[1].base_key,
                                            identity_key |-> session_state.local_identity_key]),
                           message |-> message]
                     ELSE [to |-> to, kind |-> "SignalMessage", header |-> None,
                           message |-> message]
                 advanced     == set_sender_chain_key(session_state, next_chain_key(chain_key))
             IN  [ok |-> TRUE, err |-> NoError,
                  record |-> set_session_state(record, advanced),
                  message |-> Some(envelope)]

\* Mutant: message_encrypt takes the pre key items for sent once the envelope is
\* built, and clears them.
encrypt_with_recordClearsItems(record, ptext, to) ==
    IF ~IsSome(record.current_session)
    THEN [ok |-> FALSE, err |-> Error("InvalidState", "No session"), record |-> record,
          message |-> None]
    ELSE LET session_state == record.current_session[1]
         IN  IF ~IsSome(session_state.sender_chain)
             THEN [ok |-> FALSE, err |-> Error("InvalidState", "No sender chain"),
                   record |-> record, message |-> None]
             ELSE IF ~IsSome(session_state.remote_identity_key)
             THEN [ok |-> FALSE, err |-> Error("InvalidSessionStructure", ""),
                   record |-> record, message |-> None]
             ELSE
             LET chain_key    == session_state.sender_chain[1].chain_key
                 keys         == message_keys(chain_key)
                 ctext        == aes_256_cbc_encrypt(ptext, cipher_key(keys), iv(keys))
                 message      == NewSignalMessage(session_state.session_version,
                                     mac_key(keys),
                                     session_state.sender_chain[1].sender_ratchet_key,
                                     chain_key.index, session_state.previous_counter, ctext,
                                     session_state.local_identity_key,
                                     session_state.remote_identity_key[1])
                 items        == session_state.pending_pre_key
                 envelope     ==
                     IF IsSome(items)
                     THEN [to |-> to, kind |-> "PreKeySignalMessage",
                           header |-> Some([message_version |-> session_state.session_version,
                                            registration_id |-> session_state.local_registration_id,
                                            pre_key_id |-> items[1].pre_key_id,
                                            signed_pre_key_id |-> items[1].signed_pre_key_id,
                                            base_key |-> items[1].base_key,
                                            identity_key |-> session_state.local_identity_key]),
                           message |-> message]
                     ELSE [to |-> to, kind |-> "SignalMessage", header |-> None,
                           message |-> message]
                 advanced     == clear_unacknowledged_pre_key_message(
                                     set_sender_chain_key(session_state,
                                                          next_chain_key(chain_key)))
             IN  [ok |-> TRUE, err |-> NoError,
                  record |-> set_session_state(record, advanced),
                  message |-> Some(envelope)]

\* Mutant: message_encrypt puts the sender chain key back without the step.
encrypt_with_recordNoStep(record, ptext, to) ==
    IF ~IsSome(record.current_session)
    THEN [ok |-> FALSE, err |-> Error("InvalidState", "No session"), record |-> record,
          message |-> None]
    ELSE LET session_state == record.current_session[1]
         IN  IF ~IsSome(session_state.sender_chain)
             THEN [ok |-> FALSE, err |-> Error("InvalidState", "No sender chain"),
                   record |-> record, message |-> None]
             ELSE IF ~IsSome(session_state.remote_identity_key)
             THEN [ok |-> FALSE, err |-> Error("InvalidSessionStructure", ""),
                   record |-> record, message |-> None]
             ELSE
             LET chain_key    == session_state.sender_chain[1].chain_key
                 keys         == message_keys(chain_key)
                 ctext        == aes_256_cbc_encrypt(ptext, cipher_key(keys), iv(keys))
                 message      == NewSignalMessage(session_state.session_version,
                                     mac_key(keys),
                                     session_state.sender_chain[1].sender_ratchet_key,
                                     chain_key.index, session_state.previous_counter, ctext,
                                     session_state.local_identity_key,
                                     session_state.remote_identity_key[1])
                 items        == session_state.pending_pre_key
                 envelope     ==
                     IF IsSome(items)
                     THEN [to |-> to, kind |-> "PreKeySignalMessage",
                           header |-> Some([message_version |-> session_state.session_version,
                                            registration_id |-> session_state.local_registration_id,
                                            pre_key_id |-> items[1].pre_key_id,
                                            signed_pre_key_id |-> items[1].signed_pre_key_id,
                                            base_key |-> items[1].base_key,
                                            identity_key |-> session_state.local_identity_key]),
                           message |-> message]
                     ELSE [to |-> to, kind |-> "SignalMessage", header |-> None,
                           message |-> message]
                 advanced     == set_sender_chain_key(session_state, chain_key)
             IN  [ok |-> TRUE, err |-> NoError,
                  record |-> set_session_state(record, advanced),
                  message |-> Some(envelope)]

\* message_encrypt between load_session and is_trusted_identity (lines 37-103).
encrypt_with_record(record, ptext, to) ==
    IF ~IsSome(record.current_session)
    THEN [ok |-> FALSE, err |-> Error("InvalidState", "No session"), record |-> record,
          message |-> None]
    ELSE LET session_state == record.current_session[1]
         IN  IF ~IsSome(session_state.sender_chain)
             THEN [ok |-> FALSE, err |-> Error("InvalidState", "No sender chain"),
                   record |-> record, message |-> None]
             ELSE IF ~IsSome(session_state.remote_identity_key)
             THEN [ok |-> FALSE, err |-> Error("InvalidSessionStructure", ""),
                   record |-> record, message |-> None]
             ELSE
             LET chain_key    == session_state.sender_chain[1].chain_key
                 keys         == message_keys(chain_key)
                 ctext        == aes_256_cbc_encrypt(ptext, cipher_key(keys), iv(keys))
                 message      == NewSignalMessage(session_state.session_version,
                                     mac_key(keys),
                                     session_state.sender_chain[1].sender_ratchet_key,
                                     chain_key.index, session_state.previous_counter, ctext,
                                     session_state.local_identity_key,
                                     session_state.remote_identity_key[1])
                 items        == session_state.pending_pre_key
                 envelope     ==
                     IF IsSome(items)
                     THEN [to |-> to, kind |-> "PreKeySignalMessage",
                           header |-> Some([message_version |-> session_state.session_version,
                                            registration_id |-> session_state.local_registration_id,
                                            pre_key_id |-> items[1].pre_key_id,
                                            signed_pre_key_id |-> items[1].signed_pre_key_id,
                                            base_key |-> items[1].base_key,
                                            identity_key |-> session_state.local_identity_key]),
                           message |-> message]
                     ELSE [to |-> to, kind |-> "SignalMessage", header |-> None,
                           message |-> message]
                 advanced     == set_sender_chain_key(session_state, next_chain_key(chain_key))
             IN  [ok |-> TRUE, err |-> NoError,
                  record |-> set_session_state(record, advanced),
                  message |-> Some(envelope)]

\* message_encrypt: load_session and the work up to the trust check, whatever the
\* other tasks are doing.
EncryptStart(t, p, ptext) ==
    /\ task[t].pc = "idle"
    /\ Sent < MaxCounter
    /\ LET tk == Called([Begin("encrypt", p) EXCEPT !.ptext_in = ptext], "load_session")
       IN  task' = [task EXCEPT ![t] =
               IF ~IsSome(sessions[p]) THEN Fail(tk, Error("SessionNotFound", ""))
               ELSE Only({ IF ~r.ok THEN Fail(tk, r.err)
                           ELSE [tk EXCEPT !.pc = "enc_trust", !.record = Some(r.record),
                                           !.out = r.message] :
                           r \in {encrypt_with_record(sessions[p][1], ptext, Peer(p))} })]
    /\ UNCHANGED <<sessions, identities, pre_keys, net, consumed>>

\* message_encrypt called under the caller's mutex.
EncryptLoad(t, p, ptext) == CanStart(t) /\ EncryptStart(t, p, ptext)

\* Mutant: message_encrypt stores the session before it asks for trust.
EncryptTrustAfterStore(t, trusted) ==
    /\ task[t].pc = "enc_trust"
    /\ LET tk == Called(Called(task[t], "store_session"), "is_trusted_identity")
       IN  task' = [task EXCEPT ![t] =
               IF ~trusted THEN Fail(tk, Error("UntrustedIdentity", ""))
               ELSE [tk EXCEPT !.pc = "enc_save_identity"]]
    /\ sessions' = [sessions EXCEPT ![task[t].who] = task[t].record]
    /\ UNCHANGED <<identities, pre_keys, net, consumed>>

\* message_encrypt: is_trusted_identity(.., Sending).
EncryptTrust(t, trusted) ==
    /\ task[t].pc = "enc_trust"
    /\ LET tk == Called(task[t], "is_trusted_identity")
       IN  task' = [task EXCEPT ![t] =
               IF ~trusted THEN Fail(tk, Error("UntrustedIdentity", ""))
               ELSE [tk EXCEPT !.pc = "enc_save_identity"]]
    /\ UNCHANGED <<sessions, identities, pre_keys, net, consumed>>

\* message_encrypt: save_identity.
EncryptSaveIdentity(t, io) ==
    /\ task[t].pc = "enc_save_identity"
    /\ LET tk == Called(task[t], "save_identity")
           p  == task[t].who
       IN  IF ~io
           THEN /\ task' = [task EXCEPT ![t] = Fail(tk, StorageError)]
                /\ UNCHANGED identities
           ELSE /\ task' = [task EXCEPT ![t] = [tk EXCEPT !.pc = "enc_store_session"]]
                /\ identities' = [identities EXCEPT ![p] =
                       task[t].record[1].current_session[1].remote_identity_key]
    /\ UNCHANGED <<sessions, pre_keys, net, consumed>>

\* Mutant: store_session steps the sender chain of the record the store holds, not
\* the one the task loaded.
EncryptStoreSessionOnStored(t, io) ==
    /\ task[t].pc = "enc_store_session"
    /\ LET tk == Called(task[t], "store_session")
           p  == task[t].who
       IN  IF ~io
           THEN /\ task' = [task EXCEPT ![t] = Fail(tk, StorageError)]
                /\ UNCHANGED <<sessions, net>>
           ELSE /\ task' = [task EXCEPT ![t] = [tk EXCEPT !.pc = "done", !.ok = TRUE]]
                /\ sessions' = [sessions EXCEPT ![p] =
                       Some(encrypt_with_record(sessions[p][1], task[t].ptext_in,
                                                Peer(p)).record)]
                /\ net' = net \cup {task[t].out[1]}
    /\ UNCHANGED <<identities, pre_keys, consumed>>

\* message_encrypt: store_session, then the envelope is returned (and sent).
EncryptStoreSession(t, io) ==
    /\ task[t].pc = "enc_store_session"
    /\ LET tk == Called(task[t], "store_session")
           p  == task[t].who
       IN  IF ~io
           THEN /\ task' = [task EXCEPT ![t] = Fail(tk, StorageError)]
                /\ UNCHANGED <<sessions, net>>
           ELSE /\ task' = [task EXCEPT ![t] = [tk EXCEPT !.pc = "done", !.ok = TRUE]]
                /\ sessions' = [sessions EXCEPT ![p] = task[t].record]
                /\ net' = net \cup {task[t].out[1]}
    /\ UNCHANGED <<identities, pre_keys, consumed>>

\* History: the counter the receiver expects next on the chain of a message,
\* one more than the highest counter it has consumed from that chain.
ChainOf(m) == m.mac.key.from.seed

\* An envelope an attacker built from one in flight: every field of the message is
\* the genuine one, the MAC is not the one the message keys give.
Forge(e) == [e EXCEPT !.message.mac.key.use = "forged"]

Unforge(e) == [e EXCEPT !.message.mac.key.use = "mac"]

Genuine(e) == e.message.mac.key.use = "mac"

ExpectedCounter(p, m) ==
    LET seen == {c.counter : c \in {x \in consumed[p] : ChainOf(x) = ChainOf(m)}}
    IN  IF seen = {} THEN 0 ELSE 1 + (CHOOSE c \in seen : \A d \in seen : d <= c)

Deliver(t, op, p, m) ==
    [Begin(op, p) EXCEPT !.input = Some(m),
                         !.replay = (m.message \in consumed[p]),
                         !.jump = m.message.counter - ExpectedCounter(p, m.message),
                         !.again =
                             IF task[t].last.op = op /\ task[t].last.who = p
                                    /\ task[t].last.input = Some(m)
                             THEN task[t].last.outcome
                             ELSE "no"]

\* message_decrypt_signal: load_session and the record-level decryptor.
DecryptSignalLoad(t, p, m) ==
    /\ CanStart(t)
    /\ Unforge(m) \in net /\ m.to = p
    /\ LET tk == Called(Deliver(t, "decrypt_signal", p, m), "load_session")
       IN  IF ~IsSome(sessions[p])
           THEN task' = [task EXCEPT ![t] = Fail(tk, Error("SessionNotFound", ""))]
           ELSE \E r \in {decrypt_message_with_record(sessions[p][1], m.message)} :
                  LET dk == [Called(tk, "decrypt")
                                EXCEPT !.record = Some(r.record), !.before = sessions[p],
                                       !.tried = r.tried]
                  IN  task' = [task EXCEPT ![t] =
                          IF ~r.ok THEN Fail(dk, r.err)
                          ELSE IF ~IsSome(r.record.current_session[1].remote_identity_key)
                          THEN Fail(dk, Error("InvalidSessionStructure", ""))
                          ELSE [dk EXCEPT !.pc = "dec_trust", !.ptext = r.ptext]]
    /\ UNCHANGED <<sessions, identities, pre_keys, net, consumed>>

\* Mutant: message_decrypt_signal stores the session before it asks for trust.
DecryptSignalTrustAfterStore(t, trusted) ==
    /\ task[t].pc = "dec_trust"
    /\ LET tk == Called(Called(task[t], "store_session"), "is_trusted_identity")
       IN  task' = [task EXCEPT ![t] =
               IF ~trusted THEN Fail(tk, Error("UntrustedIdentity", ""))
               ELSE [tk EXCEPT !.pc = "dec_save_identity"]]
    /\ sessions' = [sessions EXCEPT ![task[t].who] = task[t].record]
    /\ consumed' = [consumed EXCEPT ![task[t].who] = @ \cup {task[t].input[1].message}]
    /\ UNCHANGED <<identities, pre_keys, net>>

\* Mutant: message_decrypt_signal writes the record through although the
\* identity is not trusted.
DecryptSignalTrustWritesThrough(t, trusted) ==
    /\ task[t].pc = "dec_trust"
    /\ LET tk == Called(task[t], "is_trusted_identity")
       IN  IF trusted
           THEN /\ task' = [task EXCEPT ![t] = [tk EXCEPT !.pc = "dec_save_identity"]]
                /\ UNCHANGED <<sessions, consumed>>
           ELSE /\ task' = [task EXCEPT ![t] =
                       Fail(Called(tk, "store_session"), Error("UntrustedIdentity", ""))]
                /\ sessions' = [sessions EXCEPT ![task[t].who] = task[t].record]
                /\ consumed' = [consumed EXCEPT ![task[t].who] =
                                   @ \cup {task[t].input[1].message}]
    /\ UNCHANGED <<identities, pre_keys, net>>

\* message_decrypt_signal: is_trusted_identity(.., Receiving).
DecryptSignalTrust(t, trusted) ==
    /\ task[t].pc = "dec_trust"
    /\ LET tk == Called(task[t], "is_trusted_identity")
       IN  task' = [task EXCEPT ![t] =
               IF ~trusted THEN Fail(tk, Error("UntrustedIdentity", ""))
               ELSE [tk EXCEPT !.pc = "dec_save_identity"]]
    /\ UNCHANGED <<sessions, identities, pre_keys, net, consumed>>

\* message_decrypt_signal: save_identity.
DecryptSignalSaveIdentity(t, io) ==
    /\ task[t].pc = "dec_save_identity"
    /\ LET tk == Called(task[t], "save_identity")
           p  == task[t].who
       IN  IF ~io
           THEN /\ task' = [task EXCEPT ![t] = Fail(tk, StorageError)]
                /\ UNCHANGED identities
           ELSE /\ task' = [task EXCEPT ![t] = [tk EXCEPT !.pc = "dec_store_session"]]
                /\ identities' = [identities EXCEPT ![p] =
                       task[t].record[1].current_session[1].remote_identity_key]
    /\ UNCHANGED <<sessions, pre_keys, net, consumed>>

\* message_decrypt_signal: store_session, then the plaintext is returned.
DecryptSignalStoreSession(t, io) ==
    /\ task[t].pc = "dec_store_session"
    /\ LET tk == Called(task[t], "store_session")
           p  == task[t].who
       IN  IF ~io
           THEN /\ task' = [task EXCEPT ![t] = Fail(tk, StorageError)]
                /\ UNCHANGED <<sessions, consumed>>
           ELSE /\ task' = [task EXCEPT ![t] = [tk EXCEPT !.pc = "done", !.ok = TRUE]]
                /\ sessions' = [sessions EXCEPT ![p] = task[t].record]
                /\ consumed' = [consumed EXCEPT ![p] = @ \cup {task[t].input[1].message}]
    /\ UNCHANGED <<identities, pre_keys, net>>

\* Mutant: message_decrypt_prekey insists on a stored record.
DecryptPrekeyLoadNeedsRecord(t, p, m) ==
    /\ CanStart(t)
    /\ m \in net /\ m.to = p /\ m.kind = "PreKeySignalMessage"
    /\ LET tk == Called(Deliver(t, "decrypt_prekey", p, m), "load_session")
       IN  task' = [task EXCEPT ![t] =
               IF ~IsSome(sessions[p]) THEN Fail(tk, Error("SessionNotFound", ""))
               ELSE [tk EXCEPT !.pc = "pk_process_prekey", !.record = sessions[p]]]
    /\ UNCHANGED <<sessions, identities, pre_keys, net, consumed>>

\* message_decrypt_prekey: load_session, or a fresh record.
DecryptPrekeyLoad(t, p, m) ==
    /\ CanStart(t)
    /\ m \in net /\ m.to = p /\ m.kind = "PreKeySignalMessage"
    /\ LET tk == Called(Deliver(t, "decrypt_prekey", p, m), "load_session")
       IN  task' = [task EXCEPT ![t] =
               [tk EXCEPT !.pc = "pk_process_prekey",
                               !.record = IF IsSome(sessions[p]) THEN sessions[p]
                                          ELSE Some(new_fresh)]]
    /\ UNCHANGED <<sessions, identities, pre_keys, net, consumed>>

\* Mutant: message_decrypt_prekey persists the session and consumes the pre key
\* as soon as process_prekey has returned, before the decryption.
DecryptPrekeyProcessPersists(t, trusted) ==
    /\ task[t].pc = "pk_process_prekey"
    /\ LET tk == Called(task[t], "process_prekey")
           p  == task[t].who
           m  == task[t].input[1]
       IN  \E pk \in {process_prekey(m.header[1], task[t].record[1], trusted, pre_keys[p])} :
             IF ~pk.ok
             THEN /\ task' = [task EXCEPT ![t] = Fail(tk, pk.err)]
                  /\ UNCHANGED <<identities, sessions, pre_keys>>
             ELSE \E r \in {decrypt_message_with_record(pk.record, m.message)} :
                    LET dk == [Called(tk, "decrypt")
                                  EXCEPT !.record = Some(r.record),
                                         !.before = Some(pk.record), !.tried = r.tried,
                                         !.pre_key_id = pk.pre_key_id]
                    IN  /\ task' = [task EXCEPT ![t] =
                               IF ~r.ok THEN Fail(dk, r.err)
                               ELSE [dk EXCEPT !.pc = "pk_store_session",
                                               !.ptext = r.ptext]]
                        /\ identities' =
                               IF pk.saved
                               THEN [identities EXCEPT ![p] = Some(m.header[1].identity_key)]
                               ELSE identities
                        /\ sessions' = [sessions EXCEPT ![p] = Some(pk.record)]
                        /\ pre_keys' = [pre_keys EXCEPT ![p] =
                               @ \ {pk.pre_key_id[i] : i \in DOMAIN pk.pre_key_id}]
    /\ UNCHANGED <<net, consumed>>

\* message_decrypt_prekey: process_prekey, then the record-level decryptor.
DecryptPrekeyProcess(t, trusted) ==
    /\ task[t].pc = "pk_process_prekey"
    /\ LET tk == Called(task[t], "process_prekey")
           p  == task[t].who
           m  == task[t].input[1]
       IN  \E pk \in {process_prekey(m.header[1], task[t].record[1], trusted, pre_keys[p])} :
             IF ~pk.ok
             THEN /\ task' = [task EXCEPT ![t] = Fail(tk, pk.err)]
                  /\ UNCHANGED identities
             ELSE \E r \in {decrypt_message_with_record(pk.record, m.message)} :
                    LET dk == [Called(tk, "decrypt")
                                  EXCEPT !.record = Some(r.record),
                                         !.before = Some(pk.record), !.tried = r.tried,
                                         !.pre_key_id = pk.pre_key_id]
                    IN  /\ task' = [task EXCEPT ![t] =
                               IF ~r.ok THEN Fail(dk, r.err)
                               ELSE [dk EXCEPT !.pc = "pk_store_session",
                                               !.ptext = r.ptext]]
                        /\ identities' =
                               IF pk.saved
                               THEN [identities EXCEPT ![p] = Some(m.header[1].identity_key)]
                               ELSE identities
    /\ UNCHANGED <<sessions, pre_keys, net, consumed>>

\* Mutant: message_decrypt_prekey never removes the pre key.
DecryptPrekeyKeepsPreKey(t, io) ==
    /\ task[t].pc = "pk_store_session"
    /\ LET tk == Called(task[t], "store_session")
           p  == task[t].who
       IN  IF ~io
           THEN /\ task' = [task EXCEPT ![t] = Fail(tk, StorageError)]
                /\ UNCHANGED <<sessions, consumed>>
           ELSE /\ task' = [task EXCEPT ![t] = [tk EXCEPT !.pc = "done", !.ok = TRUE]]
                /\ sessions' = [sessions EXCEPT ![p] = task[t].record]
                /\ consumed' = [consumed EXCEPT ![p] = @ \cup {task[t].input[1].message}]
    /\ UNCHANGED <<identities, pre_keys, net>>

\* message_decrypt_prekey: store_session.
DecryptPrekeyStoreSession(t, io) ==
    /\ task[t].pc = "pk_store_session"
    /\ LET tk == Called(task[t], "store_session")
           p  == task[t].who
       IN  IF ~io
           THEN /\ task' = [task EXCEPT ![t] = Fail(tk, StorageError)]
                /\ UNCHANGED <<sessions, consumed>>
           ELSE /\ task' = [task EXCEPT ![t] =
                       IF IsSome(task[t].pre_key_id)
                       THEN [tk EXCEPT !.pc = "pk_remove_pre_key"]
                       ELSE [tk EXCEPT !.pc = "done", !.ok = TRUE]]
                /\ sessions' = [sessions EXCEPT ![p] = task[t].record]
                /\ consumed' = [consumed EXCEPT ![p] = @ \cup {task[t].input[1].message}]
    /\ UNCHANGED <<identities, pre_keys, net>>

\* message_decrypt_prekey: remove_pre_key, then the plaintext is returned.
DecryptPrekeyRemovePreKey(t, io) ==
    /\ task[t].pc = "pk_remove_pre_key"
    /\ LET tk == Called(task[t], "remove_pre_key")
           p  == task[t].who
       IN  IF ~io
           THEN /\ task' = [task EXCEPT ![t] = Fail(tk, StorageError)]
                /\ UNCHANGED pre_keys
           ELSE /\ task' = [task EXCEPT ![t] = [tk EXCEPT !.pc = "done", !.ok = TRUE]]
                /\ pre_keys' = [pre_keys EXCEPT ![p] = @ \ {task[t].pre_key_id[1]}]
    /\ UNCHANGED <<sessions, identities, net, consumed>>

\* The initiator sets up a further session with the responder (the key
\* agreement of session.rs); her current state moves to the archive.
NewSession(t) ==
    /\ CanStart(t)
    /\ IsSome(sessions["alice"])
    /\ LET record == sessions["alice"][1]
           n      == Len(record.current_session) + Len(record.previous_sessions)
       IN  /\ n < MaxSessions
           /\ sessions' = [sessions EXCEPT !["alice"] =
                  Some(promote_state(record, initialize_alice_session(n + 1)))]
    /\ task' = [task EXCEPT ![t] = IdleTask]
    /\ UNCHANGED <<identities, pre_keys, net, consumed>>

\* A read of the current session state after load_session.
ReadState(tk, stored, field) ==
    IF ~IsSome(stored) THEN Fail(tk, Error("SessionNotFound", ""))
    ELSE IF ~IsSome(stored[1].current_session)
    THEN Fail(tk, Error("InvalidState", "No session"))
    ELSE [tk EXCEPT !.pc = "done", !.ok = TRUE,
                    !.value = IF field = "session_version"
                              THEN stored[1].current_session[1].session_version
                              ELSE stored[1].current_session[1].remote_registration_id]

\* remote_registration_id
RemoteRegistrationId(t, p) ==
    /\ CanStart(t)
    /\ task' = [task EXCEPT ![t] =
           ReadState(Called(Begin("remote_registration_id", p), "load_session"),
                     sessions[p], "remote_registration_id")]
    /\ UNCHANGED <<sessions, identities, pre_keys, net, consumed>>

\* session_version
SessionVersion(t, p) ==
    /\ CanStart(t)
    /\ task' = [task EXCEPT ![t] =
           ReadState(Called(Begin("session_version", p), "load_session"),
                     sessions[p], "session_version")]
    /\ UNCHANGED <<sessions, identities, pre_keys, net, consumed>>

\* The operation returns to its caller, who may call again.
Return(t) ==
    /\ task[t].pc = "done"
    /\ LET forged  == task[t].op = "decrypt_signal" /\ ~Genuine(task[t].input[1])
           outcome == IF task[t].op # "decrypt_signal" THEN "no"
                      ELSE IF forged
                      THEN IF task[t].jump < 0
                               /\ Unforge(task[t].input[1]).message \notin consumed[task[t].who]
                           THEN "after_forged" ELSE "no"
                      ELSE IF task[t].err.kind = "UntrustedIdentity" THEN "after_untrusted"
                      ELSE IF task[t].ok /\ task[t].jump < 0 THEN "after_cached"
                      ELSE "no"
       IN  task' = [task EXCEPT ![t] =
               IF outcome = "no" THEN IdleTask
               ELSE [IdleTask EXCEPT !.last = [op |-> task[t].op, who |-> task[t].who,
                                               input |-> IF forged
                                                         THEN Some(Unforge(task[t].input[1]))
                                                         ELSE task[t].input,
                                               outcome |-> outcome]]]
    /\ UNCHANGED <<sessions, identities, pre_keys, net, consumed>>

----------------------------------------------------------------------------
(* The specification *)

Init ==
    /\ sessions = [p \in Parties |->
           IF p = "alice" THEN Some(promote_state(new_fresh, initialize_alice_session(1)))
           ELSE None]
    /\ identities = [p \in Parties |-> None]
    /\ pre_keys = [p \in Parties |-> IF p = "bob" THEN {42} ELSE {}]
    /\ net = {}
    /\ consumed = [p \in Parties |-> {}]
    /\ task = [t \in Tasks |-> IdleTask]

Next ==
    \E t \in Serial :
        \/ \E p \in Parties, ptext \in Plaintexts(Sent) : EncryptLoad(t, p, ptext)
        \/ \E trusted \in BOOLEAN : EncryptTrust(t, trusted)
        \/ \E io \in BOOLEAN : EncryptSaveIdentity(t, io)
        \/ \E io \in BOOLEAN : EncryptStoreSession(t, io)
        \/ \E p \in Parties, m \in net : DecryptSignalLoad(t, p, m)
        \/ \E p \in Parties, m \in net : DecryptSignalLoad(t, p, Forge(m))
        \/ \E trusted \in BOOLEAN : DecryptSignalTrust(t, trusted)
        \/ \E io \in BOOLEAN : DecryptSignalSaveIdentity(t, io)
        \/ \E io \in BOOLEAN : DecryptSignalStoreSession(t, io)
        \/ \E p \in Parties, m \in net : DecryptPrekeyLoad(t, p, m)
        \/ \E trusted \in BOOLEAN : DecryptPrekeyProcess(t, trusted)
        \/ \E io \in BOOLEAN : DecryptPrekeyStoreSession(t, io)
        \/ \E io \in BOOLEAN : DecryptPrekeyRemovePreKey(t, io)
        \/ NewSession(t)
        \/ \E p \in Parties : RemoteRegistrationId(t, p)
        \/ \E p \in Parties : SessionVersion(t, p)
        \/ Return(t)

Spec == Init /\ [][Next]_vars

\* The plaintext a task encrypts when the tasks are not serialized.
TaskPlaintext(t) == <<"hello", "m1">>[t]

\* The core without the caller's mutex: two message_encrypt operations interleave
\* at their store calls.
NextConcurrent ==
    \E t \in Tasks :
        \/ EncryptStart(t, "alice", TaskPlaintext(t))
        \/ \E trusted \in BOOLEAN : EncryptTrust(t, trusted)
        \/ \E io \in BOOLEAN : EncryptSaveIdentity(t, io)
        \/ \E io \in BOOLEAN : EncryptStoreSession(t, io)
        \/ Return(t)

SpecConcurrent == Init /\ [][NextConcurrent]_vars

----------------------------------------------------------------------------
(* Properties *)

IsPrefix(a, b) == Len(a) <= Len(b) /\ \A i \in DOMAIN a : a[i] = b[i]

Count(seq, x) == Cardinality({i \in DOMAIN seq : seq[i] = x})

Done(tk) == tk.pc = "done"

EncryptOrder == <<"load_session", "is_trusted_identity", "save_identity", "store_session">>

DecryptSignalOrder ==
    <<"load_session", "decrypt", "is_trusted_identity", "save_identity", "store_session">>

DecryptPrekeyOrder ==
    <<"load_session", "process_prekey", "decrypt", "store_session", "remove_pre_key">>

\* C4: within one message_encrypt the store calls happen in the order
\* is_trusted_identity, save_identity, store_session; when is_trusted_identity
\* answers false the operation fails with UntrustedIdentity, neither save_identity
\* nor store_session is called and the persisted record is the one loaded.
C4_EncryptOrder ==
    \A t \in Tasks :
        task[t].op = "encrypt" =>
            /\ IsPrefix(task[t].calls, EncryptOrder)
            /\ task[t].err.kind = "UntrustedIdentity" =>
                   /\ task[t].calls = <<"load_session", "is_trusted_identity">>
                   /\ sessions[task[t].who] = task[t].loaded
                   /\ TotalSent(sessions[task[t].who]) = TotalSent(task[t].loaded)
            /\ Done(task[t]) /\ task[t].ok => task[t].calls = EncryptOrder

\* An encrypt refused for trust after the sender chain was advanced in memory.
C4_Witness ==
    \E t \in Tasks :
        /\ task[t].op = "encrypt" /\ Done(task[t])
        /\ task[t].err.kind = "UntrustedIdentity"
        /\ TotalSent(task[t].record) = TotalSent(task[t].loaded) + 1

\* C5 as claimed: within one message_decrypt_signal the order is load_session,
\* store_session (after the decryption), is_trusted_identity, save_identity.
C5_StoreBeforeTrust ==
    \A t \in Tasks :
        task[t].op = "decrypt_signal" =>
            IsPrefix(task[t].calls, <<"load_session", "decrypt", "store_session",
                                      "is_trusted_identity", "save_identity">>)

\* C5 as amended: within one message_decrypt_signal the order is load_session,
\* the decryption, is_trusted_identity, save_identity, store_session: the trust
\* check precedes store_session on every execution that reaches store_session.
C5_DecryptSignalOrder ==
    \A t \in Tasks :
        task[t].op = "decrypt_signal" =>
            /\ IsPrefix(task[t].calls, DecryptSignalOrder)
            /\ \A i, j \in DOMAIN task[t].calls :
                   task[t].calls[i] = "is_trusted_identity" /\ task[t].calls[j] = "store_session"
                       => i < j
            /\ Done(task[t]) /\ task[t].ok => task[t].calls = DecryptSignalOrder

\* A message_decrypt_signal that went through all its store calls.
C5_Witness ==
    \E t \in Tasks :
        /\ task[t].op = "decrypt_signal" /\ Done(task[t]) /\ task[t].ok
        /\ task[t].calls = DecryptSignalOrder
        /\ sessions[task[t].who] = task[t].record

\* C7: when the trust check of message_decrypt_signal answers false the operation
\* fails with UntrustedIdentity and the mutated record is discarded (store_session
\* and save_identity are not called, the stores hold what they held); on the
\* success path save_identity is called first and store_session second.
C7_WriteThroughAfterSuccess ==
    \A t \in Tasks :
        task[t].op = "decrypt_signal" /\ Done(task[t]) =>
            /\ task[t].calls = <<"load_session", "decrypt", "is_trusted_identity">>
                   <=> task[t].err.kind = "UntrustedIdentity"
            /\ task[t].err.kind = "UntrustedIdentity" =>
                   /\ ~task[t].ok
                   /\ Count(task[t].calls, "store_session") = 0
                   /\ Count(task[t].calls, "save_identity") = 0
                   /\ sessions[task[t].who] = task[t].loaded
                   /\ task[t].input[1].message \in consumed[task[t].who] => task[t].replay
            /\ task[t].ok =>
                   /\ task[t].calls = DecryptSignalOrder
                   /\ sessions[task[t].who] = task[t].record

\* A decryption refused for trust whose mutated record differs from the stored one.
C7_Witness ==
    \E t \in Tasks :
        /\ task[t].op = "decrypt_signal" /\ Done(task[t])
        /\ task[t].err.kind = "UntrustedIdentity"
        /\ task[t].record # task[t].loaded
        /\ sessions[task[t].who] = task[t].loaded

\* C8: within message_decrypt_prekey the effects occur in the order load_session,
\* process_prekey, record-level decryption, store_session, remove_pre_key; when
\* process_prekey or the decryption of the inner SignalMessage fails, neither
\* store_session nor remove_pre_key is called: no one-time pre key is consumed and
\* the session created by process_prekey is not persisted.
C8_DecryptPrekeyOrder ==
    \A t \in Tasks :
        task[t].op = "decrypt_prekey" =>
            /\ IsPrefix(task[t].calls, DecryptPrekeyOrder)
            /\ Done(task[t]) /\ ~task[t].ok /\ task[t].err # StorageError =>
                   /\ task[t].calls \in {<<"load_session", "process_prekey">>,
                                         <<"load_session", "process_prekey", "decrypt">>}
                   /\ sessions[task[t].who] = task[t].loaded
                   /\ pre_keys[task[t].who] = task[t].loaded_pre_keys
            /\ Done(task[t]) /\ task[t].ok => SubSeq(DecryptPrekeyOrder, 1, 4) = SubSeq(task[t].calls, 1, 4)

\* The inner message failed to decrypt after process_prekey had created a session
\* from a one-time pre key, which is still in the store.
C8_Witness ==
    \E t \in Tasks :
        /\ task[t].op = "decrypt_prekey" /\ Done(task[t]) /\ ~task[t].ok
        /\ Count(task[t].calls, "decrypt") = 1
        /\ task[t].before # task[t].loaded
        /\ IsSome(task[t].pre_key_id)
        /\ task[t].pre_key_id[1] \in pre_keys[task[t].who]
        /\ sessions[task[t].who] = task[t].loaded

\* C9: a successful message_decrypt_prekey calls remove_pre_key exactly once, with
\* the consumed id, when process_prekey returned a one-time pre key id for the
\* envelope, and never when it returned none.
C9_RemovePreKeyOnce ==
    \A t \in Tasks :
        task[t].op = "decrypt_prekey" /\ Done(task[t]) /\ task[t].ok =>
            IF IsSome(task[t].pre_key_id)
            THEN /\ Count(task[t].calls, "remove_pre_key") = 1
                 /\ task[t].pre_key_id = task[t].input[1].header[1].pre_key_id
                 /\ task[t].pre_key_id[1] \in task[t].loaded_pre_keys
                 /\ pre_keys[task[t].who] = task[t].loaded_pre_keys \ {task[t].pre_key_id[1]}
            ELSE /\ Count(task[t].calls, "remove_pre_key") = 0
                 /\ pre_keys[task[t].who] = task[t].loaded_pre_keys

\* A successful message_decrypt_prekey that consumed a one-time pre key.
C9_Witness ==
    \E t \in Tasks :
        /\ task[t].op = "decrypt_prekey" /\ Done(task[t]) /\ task[t].ok
        /\ IsSome(task[t].pre_key_id)
        /\ task[t].pre_key_id[1] \notin pre_keys[task[t].who]

\* C6 as claimed: when message_decrypt_signal decrypts an envelope but the trust
\* check answers false, the operation returns UntrustedIdentity and the advanced
\* record is nonetheless written to the SessionStore, so that the same envelope
\* delivered again produces DuplicatedMessage.
C6_UntrustedStillPersists ==
    \A t \in Tasks :
        task[t].op = "decrypt_signal" =>
            /\ Done(task[t]) /\ task[t].err.kind = "UntrustedIdentity" =>
                   sessions[task[t].who] = task[t].record
            /\ task[t].again = "after_untrusted" /\ Done(task[t]) =>
                   task[t].err.kind = "DuplicatedMessage"

\* C6 as amended: when message_decrypt_signal decrypts an envelope but the trust
\* check answers false, the operation returns UntrustedIdentity and the advanced
\* record is not written to the SessionStore, so that the same envelope delivered
\* again is decrypted again, to the same plaintext, and is no duplicate.
C6_UntrustedNotPersisted ==
    \A t \in Tasks :
        task[t].op = "decrypt_signal" =>
            /\ Done(task[t]) /\ task[t].err.kind = "UntrustedIdentity" =>
                   /\ sessions[task[t].who] = task[t].loaded
                   /\ task[t].record # task[t].loaded
            /\ task[t].again = "after_untrusted" =>
                   /\ Count(task[t].calls, "decrypt") = 1
                   /\ task[t].err.kind # "DuplicatedMessage"
                   /\ task[t].replay = FALSE => task[t].record # task[t].loaded
                   /\ ~Done(task[t]) \/ task[t].ok =>
                          task[t].ptext = task[t].input[1].message.body.ptext

\* The envelope refused for trust is delivered again and decrypts.
C6_Witness ==
    \E t \in Tasks :
        /\ task[t].op = "decrypt_signal" /\ task[t].again = "after_untrusted"
        /\ ~task[t].replay
        /\ Done(task[t]) /\ task[t].ok
        /\ task[t].ptext = task[t].input[1].message.body.ptext

\* The states of a stored record in the order the record-level decryptor tries them.
Candidates(stored) ==
    IF IsSome(stored) THEN stored[1].current_session \o stored[1].previous_sessions
    ELSE <<>>

\* The candidate states whose per-state decryptor reports a duplicate, and those
\* whose per-state decryptor succeeds.
Duplicates(cands, m) ==
    {k \in DOMAIN cands : decrypt_message_with_state(cands[k], m).err.kind = "DuplicatedMessage"}

Successes(cands, m) == {k \in DOMAIN cands : decrypt_message_with_state(cands[k], m).ok}

\* C10: in decrypt_message_with_record, as soon as the per-state decryptor returns
\* DuplicatedMessage for the current state or for an archived state, that error is
\* returned, no later candidate state is tried, the record is left unmodified, and
\* the error is never replaced by the aggregated InvalidMessage.
C10_DuplicateShortCircuits ==
    \A t \in Tasks :
        Count(task[t].calls, "decrypt") = 1 =>
            LET cands == Candidates(task[t].before)
                m     == task[t].input[1].message
                dups  == Duplicates(cands, m)
                oks   == Successes(cands, m)
            IN  /\ \A k \in dups :
                       (\A j \in dups \cup oks : k <= j) =>
                           /\ Done(task[t]) /\ ~task[t].ok
                           /\ task[t].err = decrypt_message_with_state(cands[k], m).err
                           /\ task[t].tried = k
                           /\ task[t].record = task[t].before
                           /\ sessions[task[t].who] = task[t].loaded
                /\ task[t].err.reason = "message decryption failed" => dups = {}

\* A duplicate reported while a later candidate state was waiting untried.
C10_Witness ==
    \E t \in Tasks :
        /\ Count(task[t].calls, "decrypt") = 1
        /\ Done(task[t]) /\ task[t].err.kind = "DuplicatedMessage"
        /\ task[t].tried < Len(Candidates(task[t].before))

\* The index of the receiver chain of the message's ratchet key in the candidate
\* state the record-level decryptor stopped at.
AnsweringChainIndex(tk) ==
    LET state == Candidates(tk.before)[tk.tried]
        i     == ReceiverChainIndex(state, tk.input[1].message.sender_ratchet_key)
    IN  IF i = 0 THEN -1 ELSE state.receiver_chains[i].chain_key.index

\* C2: an envelope that has been decrypted and persisted once, delivered again to
\* message_decrypt_signal, fails with DuplicatedMessage(chain_index, counter),
\* chain_index being the current index of the receiver chain and counter the
\* envelope's counter, whether the first decryption was in order or from the
\* cache of skipped keys; nothing is persisted.
C2_ReplayRejected ==
    \A t \in Tasks :
        task[t].op = "decrypt_signal" /\ task[t].replay =>
            /\ Done(task[t]) /\ ~task[t].ok
            /\ task[t].calls = <<"load_session", "decrypt">>
            /\ task[t].err.kind = "DuplicatedMessage"
            /\ task[t].err.counter = task[t].input[1].message.counter
            /\ task[t].err.chain_index = AnsweringChainIndex(task[t])
            /\ task[t].err.chain_index > task[t].err.counter
            /\ sessions[task[t].who] = task[t].loaded

\* An envelope decrypted from the cache of skipped keys is delivered again.
C2_Witness ==
    \E t \in Tasks :
        /\ task[t].op = "decrypt_signal" /\ task[t].replay
        /\ task[t].again = "after_cached"
        /\ task[t].err.kind = "DuplicatedMessage"
        /\ task[t].err.chain_index > task[t].err.counter + 1

\* The operation message_decrypt dispatches the envelope to.
Dispatched(tk) ==
    \/ tk.op = "decrypt_signal" /\ tk.input[1].kind = "SignalMessage"
    \/ tk.op = "decrypt_prekey" /\ tk.input[1].kind = "PreKeySignalMessage"

\* No candidate state holds, under the message's ratchet key, a receiver chain of
\* another session that has already moved past the message's counter.
NoCollision(stored, m) ==
    \A k \in DOMAIN Candidates(stored) :
        \A c \in DOMAIN Candidates(stored)[k].receiver_chains :
            LET chain == Candidates(stored)[k].receiver_chains[c]
            IN  chain.sender_ratchet_key = m.sender_ratchet_key
                    /\ chain.chain_key.key.seed # ChainOf(m)
                    => chain.chain_key.index <= m.counter

\* A first delivery that reached the record-level decryptor.
FirstDelivery(tk) ==
    /\ Dispatched(tk)
    /\ Count(tk.calls, "decrypt") = 1
    /\ ~tk.replay
    /\ Genuine(tk.input[1])
    /\ NoCollision(tk.before, tk.input[1].message)

\* The decryptor produced the plaintext P: the operation holds it, or has returned
\* it, or has failed later at a store.
Decrypted(tk, P) ==
    \/ ~Done(tk) /\ tk.ptext = P
    \/ Done(tk) /\ tk.ok /\ tk.ptext = P
    \/ Done(tk) /\ ~tk.ok /\ tk.err.kind \in {"UntrustedIdentity", "StorageError"}

C1_RoundTripAlways ==
    \A t \in Tasks :
        FirstDelivery(task[t]) /\ Done(task[t])
            /\ task[t].err.kind \notin {"UntrustedIdentity", "StorageError"} =>
                /\ task[t].ok
                /\ task[t].ptext = task[t].input[1].message.body.ptext

\* C1 as amended: whenever message_encrypt has succeeded and its envelope is passed
\* to message_decrypt on the receiver side, with the identity trusted and the
\* mutations applied, the decryption succeeds and returns the plaintext, provided
\* the envelope's counter is at most MAX_FORWARD_JUMPS ahead of the receiver
\* chain's current index.
C1_RoundTrip ==
    \A t \in Tasks :
        FirstDelivery(task[t]) /\ Done(task[t])
            /\ task[t].jump <= MAX_FORWARD_JUMPS
            /\ task[t].err.kind \notin {"UntrustedIdentity", "StorageError"} =>
                /\ task[t].ok
                /\ task[t].ptext = task[t].input[1].message.body.ptext
                /\ task[t].input[1].message \in consumed[task[t].who]
                /\ sessions[task[t].who] = task[t].record

\* In each direction an envelope has made the round trip.
C1_Witness ==
    \E t \in Tasks :
        /\ FirstDelivery(task[t]) /\ Done(task[t]) /\ task[t].ok
        /\ task[t].who = "alice"
        /\ task[t].ptext = task[t].input[1].message.body.ptext
        /\ \E m \in consumed["bob"] : m.body.ptext = "hello"

\* The candidate states whose per-state decryptor changes the state it is given.
Touched(cands, m) ==
    {k \in DOMAIN cands : decrypt_message_with_state(cands[k], m).state # cands[k]}

\* C11: whenever decrypt_message_with_record returns an error, the record's current
\* state and all its archived states are what they were before the call, and
\* message_decrypt_signal performs no store_session, so the persisted record is
\* unchanged.
C11_FailedAttemptsLeaveState ==
    \A t \in Tasks :
        /\ Count(task[t].calls, "decrypt") = 1
        /\ Done(task[t]) /\ ~task[t].ok
        /\ task[t].calls[Len(task[t].calls)] = "decrypt"
        => /\ task[t].record = task[t].before
           /\ Candidates(task[t].record) = Candidates(task[t].before)
           /\ sessions[task[t].who] = task[t].loaded
           /\ task[t].op = "decrypt_signal" =>
                  /\ task[t].calls = <<"load_session", "decrypt">>
                  /\ sessions[task[t].who] = task[t].before

\* Every candidate state failed, one of them after its clone had been changed.
C11_Witness ==
    \E t \in Tasks :
        /\ task[t].op = "decrypt_signal" /\ Done(task[t])
        /\ task[t].err.reason = "message decryption failed"
        /\ Touched(Candidates(task[t].before), task[t].input[1].message) # {}
        /\ sessions[task[t].who] = task[t].before

\* The operations that need a stored record.
NeedRecord == {"encrypt", "decrypt_signal", "remote_registration_id", "session_version"}

\* C12: message_encrypt, message_decrypt_signal, remote_registration_id and
\* session_version fail with SessionNotFound when load_session returns no record,
\* and write to no store; message_decrypt_prekey goes on with a fresh empty record
\* and never fails with SessionNotFound.
C12_MissingSession ==
    \A t \in Tasks :
        /\ task[t].op \in NeedRecord /\ ~IsSome(task[t].loaded) =>
               /\ Done(task[t]) /\ ~task[t].ok
               /\ task[t].err.kind = "SessionNotFound"
               /\ task[t].calls = <<"load_session">>
               /\ sessions[task[t].who] = None
        /\ task[t].err.kind = "SessionNotFound" =>
               task[t].op \in NeedRecord /\ ~IsSome(task[t].loaded)
        /\ task[t].op = "decrypt_prekey" /\ ~IsSome(task[t].loaded) =>
               /\ task[t].pc = "pk_process_prekey" => task[t].record = Some(new_fresh)
               /\ Done(task[t]) => Count(task[t].calls, "process_prekey") = 1

\* A message_decrypt_prekey without a stored record that went through.
C12_Witness ==
    \E t \in Tasks :
        /\ task[t].op = "decrypt_prekey" /\ ~IsSome(task[t].loaded)
        /\ Done(task[t]) /\ task[t].ok
        /\ IsSome(sessions[task[t].who])

Attempt(state, m) ==
    Only({ [pre |-> pre,
            got |-> get_or_create_message_key(pre.state, m.sender_ratchet_key,
                                              pre.chain_key, m.counter)] :
           pre \in {get_or_create_chain_key(state, m.sender_ratchet_key)} })

\* The attempts on the candidate states of the record a message was delivered to.
Attempts(tk) ==
    {Attempt(Candidates(tk.before)[k], tk.input[1].message) :
        k \in {j \in DOMAIN Candidates(tk.before) :
                  IsSome(Candidates(tk.before)[j].sender_chain)}}

\* The receiver chain of a peer ratchet key.
Chain(state, their_ephemeral) ==
    state.receiver_chains[ReceiverChainIndex(state, their_ephemeral)]

\* The chain key n - index steps after ck.
StepTo(ck, n) ==
    [key |-> [seed |-> ck.key.seed, steps |-> ck.key.steps + (n - ck.index)], index |-> n]

Range(seq) == {seq[x] : x \in DOMAIN seq}

\* C14: get_or_create_message_key, called with a receiver chain key at index i and
\* a counter c with i <= c and c - i <= MAX_FORWARD_JUMPS, stores the message keys
\* of exactly the counters i .. c-1 under the peer ratchet key, sets the receiver
\* chain key to index c+1, returns the message keys of counter c and changes
\* nothing else of the state.
C14_JumpAhead ==
    \A t \in Tasks :
        Count(task[t].calls, "decrypt") = 1 =>
            \A a \in Attempts(task[t]) :
                LET key == task[t].input[1].message.sender_ratchet_key
                    c   == task[t].input[1].message.counter
                    i   == a.pre.chain_key.index
                    old == Chain(a.pre.state, key)
                    new == Chain(a.got.state, key)
                IN  i <= c /\ c - i <= MAX_FORWARD_JUMPS =>
                        /\ a.got.ok
                        /\ a.got.keys = message_keys(StepTo(a.pre.chain_key, c))
                        /\ new.chain_key = StepTo(a.pre.chain_key, c + 1)
                        /\ Len(new.message_keys) = Len(old.message_keys) + (c - i)
                        /\ Range(new.message_keys) =
                               Range(old.message_keys) \cup
                                   {message_keys(StepTo(a.pre.chain_key, j)) : j \in i .. (c - 1)}
                        /\ [a.got.state EXCEPT
                               !.receiver_chains[ReceiverChainIndex(a.got.state, key)] = old]
                               = a.pre.state

\* A message was decrypted ahead of the chain index and the skipped key is in the
\* stored record.
C14_Witness ==
    \E t \in Tasks :
        /\ Count(task[t].calls, "decrypt") = 1 /\ Done(task[t]) /\ task[t].ok
        /\ task[t].tried = 1 /\ task[t].jump > 0
        /\ LET key == task[t].input[1].message.sender_ratchet_key
               now == Chain(sessions[task[t].who][1].current_session[1], key)
           IN  /\ now.chain_key.index = task[t].input[1].message.counter + 1
               /\ \E x \in DOMAIN now.message_keys :
                      now.message_keys[x].counter = task[t].input[1].message.counter - 1

\* C15: get_or_create_message_key fails with InvalidMessage exactly when counter -
\* chain_index > MAX_FORWARD_JUMPS (a jump equal to MAX_FORWARD_JUMPS is accepted);
\* on that failure it has stored no skipped key and has not changed the receiver
\* chain key; a single decryption never stores more than MAX_FORWARD_JUMPS
\* skipped keys.
C15_ForwardJumpBound ==
    \A t \in Tasks :
        Count(task[t].calls, "decrypt") = 1 =>
            \A a \in Attempts(task[t]) :
                LET key == task[t].input[1].message.sender_ratchet_key
                    c   == task[t].input[1].message.counter
                    i   == a.pre.chain_key.index
                IN  /\ a.got.err.kind = "InvalidMessage" <=> c - i > MAX_FORWARD_JUMPS
                    /\ c - i > MAX_FORWARD_JUMPS => ~a.got.ok /\ a.got.state = a.pre.state
                    /\ c - i = MAX_FORWARD_JUMPS => a.got.ok
                    /\ Len(Chain(a.got.state, key).message_keys)
                           <= Len(Chain(a.pre.state, key).message_keys) + MAX_FORWARD_JUMPS

\* A jump of exactly MAX_FORWARD_JUMPS was accepted.
C15_Witness ==
    \E t \in Tasks :
        /\ Count(task[t].calls, "decrypt") = 1 /\ Done(task[t]) /\ task[t].ok
        /\ task[t].tried = 1
        /\ task[t].jump = MAX_FORWARD_JUMPS
        /\ Attempt(Candidates(task[t].before)[1], task[t].input[1].message).got.ok

\* The caches of a record are sound with respect to the messages in done: every
\* cached key is for a counter below its chain's index, no two cached keys of a
\* chain are for the same counter, and none is the key of a message in done.
CacheSound(stored, done) ==
    \A k \in DOMAIN Candidates(stored) :
        \A c \in DOMAIN Candidates(stored)[k].receiver_chains :
            LET chain == Candidates(stored)[k].receiver_chains[c]
            IN  \A x \in DOMAIN chain.message_keys :
                    /\ chain.message_keys[x].counter < chain.chain_key.index
                    /\ \A y \in DOMAIN chain.message_keys :
                           x # y => chain.message_keys[x].counter # chain.message_keys[y].counter
                    /\ \A m \in done : m.mac.key # mac_key(chain.message_keys[x])

\* C16: in every record reachable by decrypt operations (successful or failed, in
\* order, out of order, replayed), stored or in the hands of an operation, each
\* receiver chain's cache holds keys only for counters strictly below the chain's
\* current index and never the key of a message that has been decrypted.
C16_SkippedKeyCache ==
    /\ \A p \in Parties : CacheSound(sessions[p], consumed[p])
    /\ \A t \in Tasks :
           CacheSound(task[t].record,
                      consumed[task[t].who] \cup
                          (IF task[t].ptext # "" THEN {task[t].input[1].message} ELSE {}))

\* A replay was refused by a record that holds a skipped key next to a chain that
\* has decrypted a later message.
C16_Witness ==
    \E t \in Tasks :
        /\ Done(task[t]) /\ task[t].err.kind = "DuplicatedMessage"
        /\ \E k \in DOMAIN Candidates(sessions[task[t].who]) :
               \E c \in DOMAIN Candidates(sessions[task[t].who])[k].receiver_chains :
                   LET chain == Candidates(sessions[task[t].who])[k].receiver_chains[c]
                   IN  /\ chain.message_keys # <<>>
                       /\ \E m \in consumed[task[t].who] :
                              /\ m.mac.key.from.seed = chain.chain_key.key.seed
                              /\ m.counter > chain.message_keys[1].counter

\* The state has decrypted, and the party persisted, a message of the peer.
Acknowledged(state, done) ==
    \E c \in DOMAIN state.receiver_chains :
        \E m \in done : m.mac.key.from.seed = state.receiver_chains[c].chain_key.key.seed

\* C17: message_encrypt returns a PreKeySignalMessage exactly when the current
\* state holds unacknowledged pre key items and a bare SignalMessage otherwise;
\* encrypting never clears the items; once a decryption under a state has
\* succeeded and been persisted the state holds no items, so every later encrypt
\* under it returns a bare SignalMessage.
C17_PreKeyWrapping ==
    /\ \A t \in Tasks :
           task[t].op = "encrypt" /\ IsSome(task[t].out) =>
               LET was == task[t].loaded[1].current_session[1]
                   is  == task[t].record[1].current_session[1]
               IN  /\ task[t].out[1].kind = "PreKeySignalMessage" <=> IsSome(was.pending_pre_key)
                   /\ task[t].out[1].kind = "SignalMessage" <=> ~IsSome(was.pending_pre_key)
                   /\ IsSome(task[t].out[1].header) =>
                          /\ task[t].out[1].header[1].base_key = was.pending_pre_key[1].base_key
                          /\ task[t].out[1].header[1].pre_key_id = was.pending_pre_key[1].pre_key_id
                   /\ is.pending_pre_key = was.pending_pre_key
                   /\ Acknowledged(was, consumed[task[t].who]) =>
                          task[t].out[1].kind = "SignalMessage"
    /\ \A p \in Parties :
           \A k \in DOMAIN Candidates(sessions[p]) :
               Acknowledged(Candidates(sessions[p])[k], consumed[p]) =>
                   ~IsSome(Candidates(sessions[p])[k].pending_pre_key)

\* The initiator, having decrypted a reply, sends a bare SignalMessage under a
\* state that was built with pre key items.
C17_Witness ==
    \E t \in Tasks :
        /\ task[t].op = "encrypt" /\ task[t].who = "alice"
        /\ Done(task[t]) /\ task[t].ok
        /\ task[t].out[1].kind = "SignalMessage"
        /\ Acknowledged(task[t].loaded[1].current_session[1], consumed["alice"])
        /\ \E e \in net : e.to = "bob" /\ e.kind = "PreKeySignalMessage"
                             /\ e.message.sender_ratchet_key = task[t].out[1].message.sender_ratchet_key

\* C18: get_or_create_chain_key, called with a peer ratchet key that has a receiver
\* chain, returns that chain's current chain key and leaves the state, root key
\* and receiver chains included, as it was; called with an unseen key it replaces
\* the root key by the newly derived one and adds a receiver chain for the key
\* whose chain key is the one it returns.
C18_RatchetOnlyForNewKey ==
    \A t \in Tasks :
        Count(task[t].calls, "decrypt") = 1 =>
            \A k \in DOMAIN Candidates(task[t].before) :
                LET state == Candidates(task[t].before)[k]
                    key   == task[t].input[1].message.sender_ratchet_key
                    i     == ReceiverChainIndex(state, key)
                    r     == get_or_create_chain_key(state, key)
                    n     == Len(state.receiver_chains)
                IN  IsSome(state.sender_chain) =>
                        IF i # 0
                        THEN /\ r.state = state
                             /\ r.chain_key = state.receiver_chains[i].chain_key
                        ELSE /\ r.state.root_key # state.root_key
                             /\ r.state.root_key.secret = state.root_key.secret
                             /\ r.chain_key.index = 0
                             /\ r.chain_key.key.seed = r.state.root_key
                             /\ Len(r.state.receiver_chains) = n + 1
                             /\ SubSeq(r.state.receiver_chains, 1, n) = state.receiver_chains
                             /\ r.state.receiver_chains[n + 1] =
                                    [sender_ratchet_key |-> key, chain_key |-> r.chain_key,
                                     message_keys |-> <<>>]
                             /\ [r.state EXCEPT !.root_key = state.root_key,
                                                !.receiver_chains = state.receiver_chains]
                                    = state

\* A message under an unseen ratchet key was decrypted and persisted: the stored
\* state has the new root key and the new chain.
C18_Witness ==
    \E t \in Tasks :
        /\ Count(task[t].calls, "decrypt") = 1 /\ Done(task[t]) /\ task[t].ok
        /\ task[t].tried = 1
        /\ LET state == Candidates(task[t].before)[1]
               key   == task[t].input[1].message.sender_ratchet_key
               now   == sessions[task[t].who][1].current_session[1]
           IN  /\ ReceiverChainIndex(state, key) = 0
               /\ ReceiverChainIndex(now, key) # 0
               /\ now.root_key # state.root_key

\* The index of the sender chain key of a stored record's current state.
SenderIndex(stored) == stored[1].current_session[1].sender_chain[1].chain_key.index

\* C19: with one operation in flight per address, the counter of the envelope a
\* successful message_encrypt returns is the persisted sender chain index before
\* the call and the persisted index afterwards is one greater, so that no two
\* envelopes returned on one sender chain carry the same counter; a failed encrypt
\* returns no envelope and leaves the persisted index as it was.
C19_SenderCounterUnique ==
    /\ \A t \in Tasks :
           task[t].op = "encrypt" /\ Done(task[t]) =>
               IF task[t].ok
               THEN /\ task[t].out[1].message.counter = SenderIndex(task[t].loaded)
                    /\ SenderIndex(sessions[task[t].who]) = SenderIndex(task[t].loaded) + 1
                    /\ task[t].out[1] \in net
                    /\ \A e \in net :
                           /\ e.message.mac.key.from.seed =
                                  task[t].out[1].message.mac.key.from.seed
                           /\ e # task[t].out[1]
                           => e.message.counter < task[t].out[1].message.counter
               ELSE /\ task[t].out = None
                    /\ sessions[task[t].who] = task[t].loaded
    /\ \A e1, e2 \in net :
           /\ e1.message.mac.key.from.seed = e2.message.mac.key.from.seed
           /\ e1.message.counter = e2.message.counter
           => e1 = e2

\* A second envelope was returned on a sender chain, with the next counter.
C19_Witness ==
    \E t \in Tasks :
        /\ task[t].op = "encrypt" /\ Done(task[t]) /\ task[t].ok
        /\ task[t].out[1].message.counter = 1
        /\ \E e \in net : /\ e.message.counter = 0
                          /\ e.message.mac.key.from.seed =
                                 task[t].out[1].message.mac.key.from.seed

\* C20: a forged envelope cannot burn a key. When an envelope that carries the
\* ratchet key and counter of a genuine one but not its MAC is delivered,
\* message_decrypt_signal fails without a store_session, the record in hand and
\* the stored record are what they were (skipped keys, receiver chain indexes and
\* root key included), and the genuine envelope, whose counter is in the cache of
\* skipped keys or is the chain's current index, still decrypts to its plaintext
\* against the stored record and when it is delivered next.
C20_ForgedCannotBurn ==
    \A t \in Tasks :
        /\ task[t].op = "decrypt_signal" /\ Count(task[t].calls, "decrypt") = 1
               /\ ~Genuine(task[t].input[1]) =>
                   /\ Done(task[t]) /\ ~task[t].ok
                   /\ task[t].err.kind \in {"InvalidMessage", "DuplicatedMessage"}
                   /\ Count(task[t].calls, "store_session") = 0
                   /\ task[t].record = task[t].before
                   /\ sessions[task[t].who] = task[t].before
                   /\ task[t].input[1].message \notin consumed[task[t].who]
                   /\ LET genuine == Unforge(task[t].input[1]).message
                      IN  (/\ Dispatched(task[t])
                           /\ task[t].jump <= 0
                           /\ genuine \notin consumed[task[t].who]
                           /\ NoCollision(sessions[task[t].who], genuine)) =>
                              \A r \in {decrypt_message_with_record(sessions[task[t].who][1], genuine)} :
                                  /\ r.ok /\ r.ptext = genuine.body.ptext
                                  /\ Touched(Candidates(task[t].before),
                                             task[t].input[1].message) # {}
        /\ task[t].again = "after_forged" /\ FirstDelivery(task[t]) =>
               /\ task[t].jump < 0
               /\ Decrypted(task[t], task[t].input[1].message.body.ptext)

\* The genuine envelope was decrypted from the cache of skipped keys right after
\* its forged copy had been rejected.
C20_Witness ==
    \E t \in Tasks :
        /\ task[t].again = "after_forged" /\ FirstDelivery(task[t])
        /\ task[t].jump < 0
        /\ Done(task[t]) /\ task[t].ok
        /\ task[t].ptext = task[t].input[1].message.body.ptext

\* A forged envelope for the chain's current index was rejected, having stepped
\* the chain of the clone it was tried against.
C20_WitnessAtIndex ==
    \E t \in Tasks :
        /\ task[t].op = "decrypt_signal" /\ Done(task[t])
        /\ ~Genuine(task[t].input[1]) /\ Dispatched(task[t])
        /\ task[t].jump = 0
        /\ Touched(Candidates(task[t].before), task[t].input[1].message) # {}
        /\ sessions[task[t].who] = task[t].before

\* Two message_encrypt operations that both succeeded on the record they both
\* loaded.
BothLoadedFirst(t, u) ==
    /\ t # u
    /\ task[t].op = "encrypt" /\ task[u].op = "encrypt"
    /\ task[t].who = task[u].who
    /\ Done(task[t]) /\ task[t].ok
    /\ Done(task[u]) /\ task[u].ok
    /\ task[t].loaded = task[u].loaded

\* C21: the core does not serialize the operations on one address. When two
\* message_encrypt operations for one address have both completed load_session
\* before either store_session, both return an envelope, the two envelopes carry
\* the same counter and are made with the same message keys, and the persisted
\* sender chain index is one more than the index loaded, not two.
C21_LostUpdate ==
    \A t, u \in Tasks :
        BothLoadedFirst(t, u) =>
            /\ task[t].out[1] \in net /\ task[u].out[1] \in net
            /\ task[t].out[1].message.counter = SenderIndex(task[t].loaded)
            /\ task[u].out[1].message.counter = task[t].out[1].message.counter
            /\ task[u].out[1].message.mac.key = task[t].out[1].message.mac.key
            /\ task[u].out[1].message.body.key = task[t].out[1].message.body.key
            /\ task[u].out[1].message.body.iv = task[t].out[1].message.body.iv
            /\ SenderIndex(sessions[task[t].who]) = SenderIndex(task[t].loaded) + 1
            /\ sessions[task[t].who] \in {task[t].record, task[u].record}

\* Two envelopes with different plaintexts and the same counter of one chain are
\* in flight, and the stored index has advanced by one.
C21_Witness ==
    \E t, u \in Tasks :
        /\ BothLoadedFirst(t, u)
        /\ task[t].out[1] # task[u].out[1]
        /\ task[t].out[1].message.body.ptext # task[u].out[1].message.body.ptext
        /\ task[t].out[1].message.counter = task[u].out[1].message.counter
        /\ {task[t].out[1], task[u].out[1]} \subseteq net
        /\ SenderIndex(sessions[task[t].who]) = SenderIndex(task[t].loaded) + 1

====
